---- MODULE Spec2Model ----
(***************************************************************************)
(* Smart Channel Swapper (src/main.js): the colour-pair store, the         *)
(* Calculate handler, and the least-squares matrix solver.                 *)
(*                                                                         *)
(* The solver works on JavaScript Numbers.  They are modelled here as IEEE *)
(* 754 binary64 values with round-to-nearest-even: a finite Number is      *)
(* s * m * 2^e with a 53-bit significand m held in four 14-bit limbs       *)
(* (little-endian), so that every product of two limbs fits the 32-bit     *)
(* integers of the model checker.  Division by zero gives Infinity or NaN  *)
(* as in JavaScript.  The exponent is left unbounded: on 8-bit colours the *)
(* magnitudes the solver produces stay far inside the binary64 range.      *)
(***************************************************************************)
EXTENDS Integers, Sequences, FiniteSets, TLC

-----------------------------------------------------------------------------
(* A computed value is bound to a name by The({ e : x \in {v} }) or by      *)
(* \E x \in {v} : P, which evaluate v once, where it is bound.  A sequence  *)
(* built by [i \in 1..n |-> e] is followed by \o <<>>, which evaluates it   *)
(* to a tuple once.                                                        *)

\* the element of a singleton
The(S) == CHOOSE r \in S : TRUE

-----------------------------------------------------------------------------
(* Multi-limb naturals                                                     *)

Base == 2^14

Pow2 == <<1, 2, 4, 8, 16, 32, 64, 128, 256, 512, 1024, 2048, 4096, 8192, 16384>>

P2(i) == Pow2[i + 1]

Limb(N, i) == IF i >= 1 /\ i <= Len(N) THEN N[i] ELSE 0

\* Carry propagation over column sums (which may be negative in a subtraction
\* whose result is not): the limbs from column i on, cy the carry into it.
RECURSIVE CarryFrom(_, _, _)
CarryFrom(c, i, cy) ==
    IF i > Len(c) THEN <<>>
    ELSE The({ <<t % Base>> \o CarryFrom(c, i + 1, t \div Base) : t \in {c[i] + cy} })

Carry(c0) == The({ CarryFrom(c, 1, 0) : c \in {c0} })

\* the carry out of the last column (-1: the sum is negative)
RECURSIVE CarryOutFrom(_, _, _)
CarryOutFrom(c, i, cy) ==
    IF i > Len(c) THEN cy
    ELSE The({ CarryOutFrom(c, i + 1, t \div Base) : t \in {c[i] + cy} })

CarryOut(c0) == The({ CarryOutFrom(c, 1, 0) : c \in {c0} })

Shl(N0, s, K) ==
    The({ [i \in 1..K |-> ((Limb(N, i - q) * P2(r)) % Base)
                          + ((Limb(N, i - q - 1) * P2(r)) \div Base)] \o <<>>
          : N \in {N0}, q \in {s \div 14}, r \in {s % 14} })

Shr(N0, s, K) ==
    The({ [i \in 1..K |-> (Limb(N, i + q) \div P2(r))
                          + ((Limb(N, i + q + 1) % P2(r)) * P2(14 - r))] \o <<>>
          : N \in {N0}, q \in {s \div 14}, r \in {s % 14} })

Bit(N, p) == IF p < 0 THEN 0 ELSE (Limb(N, (p \div 14) + 1) \div P2(p % 14)) % 2

\* N mod 2^s = 0
LowZero(N, s) ==
    IF s <= 0 THEN TRUE
    ELSE /\ \A i \in 1..(s \div 14) : Limb(N, i) = 0
         /\ Limb(N, (s \div 14) + 1) % P2(s % 14) = 0

IsZeroBig(N) == \A i \in 1..Len(N) : N[i] = 0

LimbBits(x) == CHOOSE b \in 0..14 : x < P2(b) /\ (b = 0 \/ x >= P2(b - 1))

RECURSIVE TopLimb(_, _)
TopLimb(N, i) == IF i = 0 THEN 0 ELSE IF N[i] # 0 THEN i ELSE TopLimb(N, i - 1)

BitLen(N) ==
    The({ IF t = 0 THEN 0 ELSE 14 * (t - 1) + LimbBits(N[t]) : t \in {TopLimb(N, Len(N))} })

\* -1, 0, 1 as A < B, A = B, A > B (same length)
RECURSIVE CmpFrom(_, _, _)
CmpFrom(A, B, i) ==
    IF i = 0 THEN 0
    ELSE IF A[i] > B[i] THEN 1
    ELSE IF A[i] < B[i] THEN -1
    ELSE CmpFrom(A, B, i - 1)

CmpBig(A, B) == CmpFrom(A, B, Len(A))

-----------------------------------------------------------------------------
(* Numbers (binary64)                                                      *)

Zero == [k |-> "fin", s |-> 1, e |-> 0, m |-> <<0, 0, 0, 0>>]

NaN == [k |-> "nan", s |-> 1, e |-> 0, m |-> <<0, 0, 0, 0>>]

Infinity(sg) == [k |-> "inf", s |-> sg, e |-> 0, m |-> <<0, 0, 0, 0>>]

Finite(sg, e, M) == [k |-> "fin", s |-> sg, e |-> e, m |-> M]

IsZero(x) == x.k = "fin" /\ x.m = <<0, 0, 0, 0>>

\* the 53-bit M, rounded up by one unit: a carry out of bit 53 renormalises
RoundedUp(sg, M0, e) ==
    The({ IF M[4] = 2048 THEN Finite(sg, e + 1, <<0, 0, 0, 1024>>) ELSE Finite(sg, e, M)
          : M \in {M0} })

\* M is the 53 leading bits; half is the first bit cut, rest says that a
\* non-zero part follows it: round to nearest, ties to even
RoundCut(sg, M0, e, half, rest) ==
    The({ IF half /\ (rest \/ M[1] % 2 = 1)
          THEN RoundedUp(sg, Carry([M EXCEPT ![1] = @ + 1]), e)
          ELSE Finite(sg, e, M)
          : M \in {M0} })

\* N has L significant bits
RoundBits(sg, N, L0, e, sticky) ==
    The({ IF L = 0 THEN Zero
          ELSE IF L <= 53 THEN Finite(sg, e - (53 - L), Shl(N, 53 - L, 4))
          ELSE RoundCut(sg, Shr(N, L - 53, 4), e + (L - 53), Bit(N, L - 54) = 1,
                        sticky \/ ~LowZero(N, L - 54))
          : L \in {L0} })

\* Round the exact value sg * (N + sticky fraction) * 2^e to the nearest Number,
\* ties to even.  sticky says that a non-zero part below N's last bit was cut.
RoundNumber(sg, N0, e, sticky0) ==
    The({ RoundBits(sg, N, BitLen(N), e, sticky) : N \in {N0}, sticky \in {sticky0} })

FromInt(n) ==
    LET a == IF n < 0 THEN -n ELSE n
    IN  RoundNumber(IF n < 0 THEN -1 ELSE 1,
                    <<a % Base, (a \div Base) % Base, a \div (Base * Base), 0>>, 0, FALSE)

\* -x (the sign of a zero is not kept: no operation of the program observes it)
Neg(x0) ==
    The({ IF IsZero(x) \/ x.k = "nan" THEN x ELSE [x EXCEPT !.s = -x.s] : x \in {x0} })

\* Math.abs
Abs(x0) == The({ IF x.k = "nan" THEN x ELSE [x EXCEPT !.s = 1] : x \in {x0} })

\* |a| compared with |b| for finite non-zero a, b
CmpMag(a, b) ==
    IF a.e > b.e THEN 1 ELSE IF a.e < b.e THEN -1 ELSE CmpBig(a.m, b.m)

\* a compared with b, for finite or infinite operands
Cmp(a, b) ==
    LET sa == IF IsZero(a) THEN 0 ELSE a.s
        sb == IF IsZero(b) THEN 0 ELSE b.s
    IN  IF sa # sb THEN (IF sa > sb THEN 1 ELSE -1)
        ELSE IF sa = 0 THEN 0
        ELSE IF a.k = "inf" \/ b.k = "inf"
             THEN (IF a.k = b.k THEN 0 ELSE IF a.k = "inf" THEN sa ELSE -sa)
        ELSE sa * CmpMag(a, b)

\* a < b, a > b, a <= b, a >= b: false when either is NaN
Lt(a0, b0) == \E a \in {a0}, b \in {b0} : a.k # "nan" /\ b.k # "nan" /\ Cmp(a, b) < 0

Gt(a0, b0) == \E a \in {a0}, b \in {b0} : a.k # "nan" /\ b.k # "nan" /\ Cmp(a, b) > 0

Le(a0, b0) == \E a \in {a0}, b \in {b0} : a.k # "nan" /\ b.k # "nan" /\ Cmp(a, b) <= 0

Ge(a0, b0) == \E a \in {a0}, b \in {b0} : a.k # "nan" /\ b.k # "nan" /\ Cmp(a, b) >= 0

\* a + b for finite non-zero a, b with a.e >= b.e
AddFinite(a, b) ==
    IF a.e - b.e > 55 THEN a
    ELSE The({ IF a.s = b.s
               THEN RoundNumber(a.s, Carry([i \in 1..8 |-> A[i] + B[i]] \o <<>>), b.e, FALSE)
               ELSE LET c == CmpBig(A, B)
                    IN  IF c = 0 THEN Zero
                        ELSE IF c > 0
                             THEN RoundNumber(a.s, Carry([i \in 1..8 |-> A[i] - B[i]] \o <<>>),
                                              b.e, FALSE)
                        ELSE RoundNumber(b.s, Carry([i \in 1..8 |-> B[i] - A[i]] \o <<>>),
                                         b.e, FALSE)
               : A \in {Shl(a.m, a.e - b.e, 8)}, B \in {Shl(b.m, 0, 8)} })

\* a + b
Add(a0, b0) ==
    The({ IF a.k = "nan" \/ b.k = "nan" THEN NaN
          ELSE IF a.k = "inf"
               THEN (IF b.k = "inf" /\ b.s # a.s THEN NaN ELSE a)
          ELSE IF b.k = "inf" THEN b
          ELSE IF IsZero(a) THEN b
          ELSE IF IsZero(b) THEN a
          ELSE IF a.e >= b.e THEN AddFinite(a, b) ELSE AddFinite(b, a)
          : a \in {a0}, b \in {b0} })

\* a - b
Sub(a, b) == Add(a, Neg(b))

\* a * b
Mul(a0, b0) ==
    The({ IF a.k = "nan" \/ b.k = "nan" THEN NaN
          ELSE IF a.k = "inf" \/ b.k = "inf"
               THEN (IF IsZero(a) \/ IsZero(b) THEN NaN ELSE Infinity(a.s * b.s))
          ELSE IF IsZero(a) \/ IsZero(b) THEN Zero
          ELSE LET u == a.m
                   v == b.m
               IN  RoundNumber(a.s * b.s,
                               Carry(<< u[1] * v[1],
                                        u[1] * v[2] + u[2] * v[1],
                                        u[1] * v[3] + u[2] * v[2] + u[3] * v[1],
                                        u[1] * v[4] + u[2] * v[3] + u[3] * v[2] + u[4] * v[1],
                                        u[2] * v[4] + u[3] * v[3] + u[4] * v[2],
                                        u[3] * v[4] + u[4] * v[3],
                                        u[4] * v[4],
                                        0 >>),
                               a.e + b.e, FALSE)
          : a \in {a0}, b \in {b0} })

\* One digit of the long division of R * Base by D (D's top limb >= Base/2):
\* the largest q with R * Base - q * D >= 0, found from the estimate qh.
RECURSIVE DivDigit(_, _, _)
DivDigit(R, D, qh0) ==
    The({ IF CarryOut(<<0 - qh * D[1], R[1] - qh * D[2], R[2] - qh * D[3],
                        R[3] - qh * D[4], R[4]>>) < 0
          THEN DivDigit(R, D, qh - 1)
          ELSE [q |-> qh,
                r |-> SubSeq(Carry(<<0 - qh * D[1], R[1] - qh * D[2], R[2] - qh * D[3],
                                     R[3] - qh * D[4], R[4]>>), 1, 4)]
          : qh \in {qh0} })

DivEstimate(R, D) ==
    LET t == (R[4] * Base + R[3]) \div D[4]
    IN  IF t > Base - 1 THEN Base - 1 ELSE t

\* k more digits of the quotient, most significant first, from the remainder R;
\* qs holds the digits found, least significant first
RECURSIVE DivDigits(_, _, _, _)
DivDigits(R0, D, k, qs0) ==
    The({ IF k = 0 THEN [q |-> qs, r |-> R]
          ELSE The({ DivDigits(d.r, D, k - 1, <<d.q>> \o qs)
                     : d \in {DivDigit(R, D, DivEstimate(R, D))} })
          : R \in {R0}, qs \in {qs0} })

\* sg * (N / D) * 2^e for N, D of 56 bits
LongDivision(sg, N0, D0, e) ==
    The({ LET q4 == IF CmpBig(N, D) >= 0 THEN 1 ELSE 0
              R4 == IF q4 = 1 THEN Carry([i \in 1..4 |-> N[i] - D[i]] \o <<>>) ELSE N
          IN  The({ RoundNumber(sg, res.q \o <<q4>>, e, ~IsZeroBig(res.r))
                    : res \in {DivDigits(R4, D, 4, <<>>)} })
          : N \in {N0}, D \in {D0} })

\* a / b for finite non-zero a, b
DivFinite(a, b) == LongDivision(a.s * b.s, Shl(a.m, 3, 4), Shl(b.m, 3, 4), a.e - b.e - 56)

\* a / b
Div(a0, b0) ==
    The({ IF a.k = "nan" \/ b.k = "nan" THEN NaN
          ELSE IF a.k = "inf"
               THEN (IF b.k = "inf" THEN NaN ELSE Infinity(a.s * b.s))
          ELSE IF b.k = "inf" THEN Zero
          ELSE IF IsZero(b)
               THEN (IF IsZero(a) THEN NaN ELSE Infinity(a.s * b.s))
          ELSE IF IsZero(a) THEN Zero
          ELSE DivFinite(a, b)
          : a \in {a0}, b \in {b0} })

\* Math.max, Math.min
Max(a0, b0) ==
    The({ IF a.k = "nan" \/ b.k = "nan" THEN NaN ELSE IF Cmp(a, b) >= 0 THEN a ELSE b
          : a \in {a0}, b \in {b0} })

Min(a0, b0) ==
    The({ IF a.k = "nan" \/ b.k = "nan" THEN NaN ELSE IF Cmp(a, b) <= 0 THEN a ELSE b
          : a \in {a0}, b \in {b0} })

\* Math.round: the nearest integer, halves towards +Infinity (finite x of small
\* magnitude: the entries of a clamped matrix)
MathRound(x0) ==
    The({ IF IsZero(x) THEN 0
          ELSE IF x.e >= 0 THEN x.s * (x.m[1] * P2(x.e))
          ELSE LET fl   == Shr(x.m, -x.e, 4)
                   half == Bit(x.m, (-x.e) - 1) = 1
                   rest == ~LowZero(x.m, (-x.e) - 1)
                   n    == fl[1] + Base * fl[2]
               IN  IF x.s = 1 THEN n + (IF half THEN 1 ELSE 0)
                   ELSE -(n + (IF half /\ rest THEN 1 ELSE 0))
          : x \in {x0} })

-----------------------------------------------------------------------------
(* Matrix computation: src/main.js 310-426                                 *)

\* epsilon mistyped as 1e-1
epsilonTenth == Div(FromInt(1), FromInt(10))

\* const epsilon = 1e-10 (the literal is the Number nearest to 10^-10, which is
\* also the correctly rounded quotient 1 / 10^10)
epsilon == Div(FromInt(1), Mul(FromInt(100000), FromInt(100000)))

\* the literal 1e-12 of the two singularity tests
PivotTolerance == Div(FromInt(1), Mul(FromInt(1000000), FromInt(1000000)))

\* the row, among maxRow and row..n, with the largest |aug[row][col]|; the
\* earliest one on ties
RECURSIVE FindPivot(_, _, _, _)
FindPivot(aug, col, row, maxRow0) ==
    The({ IF row > Len(aug) THEN maxRow
          ELSE FindPivot(aug, col, row + 1,
                         IF Gt(Abs(aug[row][col]), Abs(aug[maxRow][col]))
                         THEN row ELSE maxRow)
          : maxRow \in {maxRow0} })

SwapRows(aug, i, j) == [aug EXCEPT ![i] = aug[j], ![j] = aug[i]]

\* if (Math.abs(aug[col][col]) < 1e-12) continue;
PivotIsZero(aug, col) == Lt(Abs(aug[col][col]), PivotTolerance)

\* aug[row][j] -= factor * aug[col][j] for j = col..n
EliminatedRow(aug, col, row, factor) ==
    [j \in 1..(Len(aug) + 1) |->
        IF j >= col THEN Sub(aug[row][j], Mul(factor, aug[col][j]))
        ELSE aug[row][j]] \o <<>>

\* the rows row..n of st.aug with column col eliminated; st.divisors records
\* every divisor used
RECURSIVE EliminateBelow(_, _, _)
EliminateBelow(st0, col, row) ==
    The({ IF row > Len(st.aug) THEN st
          ELSE The({ EliminateBelow(
                         [aug      |-> [st.aug EXCEPT ![row] =
                                           EliminatedRow(st.aug, col, row, factor)],
                          divisors |-> Append(st.divisors, st.aug[col][col])],
                         col, row + 1)
                     : factor \in {Div(st.aug[row][col], st.aug[col][col])} })
          : st \in {st0} })

\* forward elimination with partial pivoting, columns col..n
RECURSIVE ForwardElimination(_, _)
ForwardElimination(st0, col) ==
    The({ IF col > Len(st.aug) THEN st
          ELSE The({ IF PivotIsZero(swapped.aug, col)
                     THEN ForwardElimination(swapped, col + 1)
                     ELSE ForwardElimination(EliminateBelow(swapped, col, col + 1), col + 1)
                     : swapped \in {[st EXCEPT !.aug =
                                       SwapRows(st.aug, col,
                                                FindPivot(st.aug, col, col + 1, col))]} })
          : st \in {st0} })

\* x[i] -= aug[i][j] * x[j] for j = from..n
RECURSIVE SubtractKnown(_, _, _, _, _)
SubtractKnown(aug, xs, i, j, acc) ==
    IF j > Len(aug) THEN acc
    ELSE SubtractKnown(aug, xs, i, j + 1, Sub(acc, Mul(aug[i][j], xs[j])))

\* the back substitution without its singularity test
DiagonalIsZeroUntested(aug, i) == FALSE

\* if (Math.abs(aug[i][i]) < 1e-12) in the back substitution
DiagonalIsZero(aug, i) == Lt(Abs(aug[i][i]), PivotTolerance)

\* back substitution, unknowns i..1; st.x holds the unknowns found so far
RECURSIVE BackSubstitution(_, _)
BackSubstitution(st0, i) ==
    The({ IF i = 0 THEN st
          ELSE IF DiagonalIsZero(st.aug, i)
               THEN BackSubstitution(
                        [st EXCEPT !.x[i] = IF i = 1 THEN FromInt(1) ELSE Zero], i - 1)
          ELSE BackSubstitution(
                   [st EXCEPT !.x[i] = Div(SubtractKnown(st.aug, st.x, i, i + 1,
                                                         st.aug[i][Len(st.aug) + 1]),
                                           st.aug[i][i]),
                              !.divisors = Append(@, st.aug[i][i])], i - 1)
          : st \in {st0} })

\* solveLinearSystem with what it did: the solution x, the reduced augmented
\* matrix aug, and the divisors of every division it made
LinearSystemRun(A0, b0) ==
    The({ The({ BackSubstitution([aug      |-> forward.aug,
                                  divisors |-> forward.divisors,
                                  x        |-> [i \in 1..Len(A) |-> Zero] \o <<>>], Len(A))
                : forward \in {ForwardElimination(
                                   [aug      |-> [i \in 1..Len(A) |-> Append(A[i], b[i])] \o <<>>,
                                    divisors |-> <<>>], 1)} })
          : A \in {A0}, b \in {b0} })

solveLinearSystem(A, b) == LinearSystemRun(A, b).x

\* sum of f[k] over k = 1..n from 0, in index order, as Array.reduce adds
RECURSIVE SumTo(_, _)
SumTo(f0, n) ==
    The({ IF n = 0 THEN Zero ELSE Add(SumTo(f, n - 1), f[n]) : f \in {f0} })

\* A^T A with epsilon added to the diagonal
NormalMatrix(A0) ==
    The({ [i \in 1..Len(A[1]) |-> [j \in 1..Len(A[1]) |->
              LET s == SumTo([k \in 1..Len(A) |-> Mul(A[k][i], A[k][j])] \o <<>>, Len(A))
              IN  IF i = j THEN Add(s, epsilon) ELSE s] \o <<>>] \o <<>>
          : A \in {A0} })

\* A^T b with the target of the first pair taken for every pair
NormalVectorFirstTarget(A0, b0) ==
    The({ [i \in 1..Len(A[1]) |->
              SumTo([k \in 1..Len(A) |-> Mul(A[k][i], b[1])] \o <<>>, Len(A))] \o <<>>
          : A \in {A0}, b \in {b0} })

\* A^T b
NormalVector(A0, b0) ==
    The({ [i \in 1..Len(A[1]) |->
              SumTo([k \in 1..Len(A) |-> Mul(A[k][i], b[k])] \o <<>>, Len(A))] \o <<>>
          : A \in {A0}, b \in {b0} })

LeastSquaresRun(A, b) == LinearSystemRun(NormalMatrix(A), NormalVector(A, b))

solveLeastSquares(A, b) == LeastSquaresRun(A, b).x

\* c => [c.r / 255, c.g / 255, c.b / 255]
Normalize(c) == <<Div(FromInt(c[1]), FromInt(255)), Div(FromInt(c[2]), FromInt(255)),
                  Div(FromInt(c[3]), FromInt(255))>>

\* lines 326-332: scale the row when |row sum| > maxSum
ScaleRow(row0, preventClipping, maxSum) ==
    IF ~preventClipping THEN row0
    ELSE The({ The({ IF Gt(Abs(rowSum), FromInt(maxSum))
                     THEN The({ [j \in 1..3 |-> Mul(row[j], scale)] \o <<>>
                                : scale \in {Div(FromInt(maxSum), Abs(rowSum))} })
                     ELSE row
                     : rowSum \in {SumTo(row, 3)} })
               : row \in {row0} })

\* the final clamp left out
ClampMissing(v) == v

\* line 335: Math.max(-200, Math.min(200, v))
Clamp(v) == Max(FromInt(-200), Min(FromInt(200), v))

\* weights.map(w => w * 100), scaled when clipping is prevented
ScaledRow(weights, preventClipping, maxSum) ==
    ScaleRow([j \in 1..3 |-> Mul(weights[j], FromInt(100))] \o <<>>, preventClipping, maxSum)

\* one output row from the weights of its channel
MatrixRow(weights, preventClipping, maxSum) ==
    The({ [j \in 1..3 |-> Clamp(scaled[j])] \o <<>>
          : scaled \in {ScaledRow(weights, preventClipping, maxSum)} })

\* computeChannelSwapperMatrix with what its three solves did (one run of
\* solveLinearSystem for each channel)
MatrixRun(srcColors, tgtColors, preventClipping, maxSum) ==
    The({ The({ [matrix |-> [channel \in 1..3 |->
                                MatrixRow(solved[channel].x, preventClipping, maxSum)]
                            \o <<>>,
                 runs   |-> solved]
                : solved \in {[channel \in 1..3 |->
                                  LeastSquaresRun(src, [k \in 1..Len(tgt) |-> tgt[k][channel]]
                                                       \o <<>>)] \o <<>>} })
          : src \in {[k \in 1..Len(srcColors) |-> Normalize(srcColors[k])] \o <<>>},
            tgt \in {[k \in 1..Len(tgtColors) |-> Normalize(tgtColors[k])] \o <<>>} })

computeChannelSwapperMatrix(srcColors, tgtColors, preventClipping, maxSum) ==
    MatrixRun(srcColors, tgtColors, preventClipping, maxSum).matrix

-----------------------------------------------------------------------------
(* Colour-pair store: src/main.js 13-15, 66-96                             *)

\* a colour is <<r, g, b>>; null is the empty tuple
null == <<>>

\* the filter with || in place of &&
CompletePairEither(p) == p.source # null \/ p.target # null

CompletePair(p) == p.source # null /\ p.target # null

\* colorPairs.filter(p => p.source && p.target)
validPairsOf(pairs) == SelectSeq(pairs, CompletePair)

\* the id taken from the length of the collection
addColorPairByLength(store) ==
    [colorPairs |-> Append(store.colorPairs,
                           [id |-> Len(store.colorPairs) + 1, source |-> null,
                            target |-> null]),
     nextPairId |-> store.nextPairId + 1]

\* const id = nextPairId++; colorPairs.push({ id, source: null, target: null })
addColorPair(store) ==
    [colorPairs |-> Append(store.colorPairs,
                           [id |-> store.nextPairId, source |-> null, target |-> null]),
     nextPairId |-> store.nextPairId + 1]

\* the filter with === in place of !==
removeColorPairInverted(pairs, id) == SelectSeq(pairs, LAMBDA p : p.id = id)

\* colorPairs = colorPairs.filter(p => p.id !== id)
removeColorPair(pairs, id) == SelectSeq(pairs, LAMBDA p : p.id # id)

\* colorPairs.find(p => p.id === id): its index, 0 when there is none
FindPair(pairs, id) ==
    IF \E i \in 1..Len(pairs) : pairs[i].id = id
    THEN CHOOSE i \in 1..Len(pairs) :
             pairs[i].id = id /\ \A j \in 1..(i - 1) : pairs[j].id # id
    ELSE 0

\* the source of every pair set, the lookup left out
setSourceForEveryPair(pairs, id, foreground) ==
    [j \in 1..Len(pairs) |-> [pairs[j] EXCEPT !.source = foreground]] \o <<>>

\* pair.source = getCurrentForegroundColor(), when the pair is found
setSourceForPair(pairs, id, foreground) ==
    IF FindPair(pairs, id) = 0 THEN pairs
    ELSE [pairs EXCEPT ![FindPair(pairs, id)].source = foreground]

\* pair.target = getCurrentForegroundColor(), when the pair is found
setTargetForPair(pairs, id, foreground) ==
    IF FindPair(pairs, id) = 0 THEN pairs
    ELSE [pairs EXCEPT ![FindPair(pairs, id)].target = foreground]

-----------------------------------------------------------------------------
(* Bounds and input sets                                                   *)

\* addColorPair is disabled once nextPairId has passed MaxId
MaxId == 2

\* Calculate clicks in one behaviour
MaxClicks == 1

\* pairs in one call of the solver (SolverSpec)
MaxPairs == 3

\* Calculate clicks in one behaviour of ApplySpec
MaxApplies == 2

White == <<255, 255, 255>>

Black == <<0, 0, 0>>

Red == <<255, 0, 0>>

Green == <<0, 255, 0>>

Blue == <<0, 0, 255>>

Dim == <<40, 10, 0>>

\* the foreground colours the user picks
Foregrounds == {White, Dim}

\* the (source, target) pairs the solver is called on in SolverSpec
TestPairs == { <<White, White>>, <<Black, Black>>, <<Red, Red>>, <<Green, Green>>,
               <<Blue, Blue>>, <<Dim, White>> }

\* function computeChannelSwapperMatrix(..., preventClipping = true, maxSum = 100)
DefaultMaxSum == 100

\* the (preventClipping, maxSum) settings of SolverSpec
ClippingSettings == { <<FALSE, DefaultMaxSum>>, <<TRUE, DefaultMaxSum>>, <<TRUE, 50>> }

-----------------------------------------------------------------------------
(* State                                                                   *)

VARIABLES
    colorPairs,      \* let colorPairs
    nextPairId,      \* let nextPairId
    resultsOutput,   \* textContent of #resultsOutput
    listeners,       \* click listeners registered on #colorPairsList
    document,        \* app.activeDocument: whether one is open, and its layers
    handlers,        \* the Calculate handlers started: position and local matrix
    clicks,          \* Calculate clicks so far
    solverCalls,     \* history: the arguments of every solver call of a handler
    assigned,        \* history: the ids addColorPair has assigned, in order
    invoked,         \* history: the store operations the last click on a pair
                     \* control invoked, in order
    phase,           \* "idle"; SolverSpec: "input", "computed", "permuted", "solved"
    sourceColors,    \* SolverSpec: arguments of computeChannelSwapperMatrix
    targetColors,
    clipping,        \* SolverSpec: <<preventClipping, maxSum>>
    matrix,          \* SolverSpec: the matrix returned
    previous,        \* SolverSpec: the matrix returned before the lists were permuted
    runs             \* SolverSpec: what each solveLinearSystem call did

storeVars == <<colorPairs, nextPairId, assigned, listeners>>

uiVars == <<colorPairs, nextPairId, resultsOutput, listeners, document, handlers,
            clicks, solverCalls, assigned, invoked>>

solverVars == <<phase, sourceColors, targetColors, clipping, matrix, previous, runs>>

vars == <<colorPairs, nextPairId, resultsOutput, listeners, document, handlers,
          clicks, solverCalls, assigned, invoked, phase, sourceColors, targetColors,
          clipping, matrix, previous, runs>>

-----------------------------------------------------------------------------
(* Results output: src/main.js 436-459.  A text is modelled by its kind    *)
(* and the values printed in it.                                           *)

Text(kind, arg) == [kind |-> kind, arg |-> arg]

\* formatMatrixForDisplay: the nine entries rounded with Math.round
formatMatrixForDisplay(mat) ==
    Text("matrix", [i \in 1..3 |-> [j \in 1..3 |-> MathRound(mat[i][j])] \o <<>>] \o <<>>)

-----------------------------------------------------------------------------
(* Pair controls: src/main.js 66-96, 150-176                               *)

\* initializeEventListeners: one more click listener on the list container
initializeEventListeners(registered) == registered + 1

\* removeColorPair(id) with its showResult
RemoveHandler(st, id) ==
    LET pairs == removeColorPair(st.colorPairs, id)
    IN  [colorPairs |-> pairs, resultsOutput |-> Text("removed", <<Len(pairs)>>),
         invoked |-> Append(st.invoked, <<"removeColorPair", id>>)]

\* setSourceForPair(id) with its showResult
SetSourceHandler(st, id, foreground) ==
    IF FindPair(st.colorPairs, id) = 0
    THEN [st EXCEPT !.invoked = Append(@, <<"setSourceForPair", id>>)]
    ELSE [colorPairs    |-> setSourceForPair(st.colorPairs, id, foreground),
          resultsOutput |-> Text("sourceSet", foreground),
          invoked       |-> Append(st.invoked, <<"setSourceForPair", id>>)]

\* setTargetForPair(id) with its showResult
SetTargetHandler(st, id, foreground) ==
    IF FindPair(st.colorPairs, id) = 0
    THEN [st EXCEPT !.invoked = Append(@, <<"setTargetForPair", id>>)]
    ELSE [colorPairs    |-> setTargetForPair(st.colorPairs, id, foreground),
          resultsOutput |-> Text("targetSet", foreground),
          invoked       |-> Append(st.invoked, <<"setTargetForPair", id>>)]

\* the click listener of the list: the control clicked has data-action action
\* and data-pair-id pairId
Listener(st, action, pairId, foreground) ==
    IF action = "remove" THEN RemoveHandler(st, pairId)
    ELSE IF action = "setSource" THEN SetSourceHandler(st, pairId, foreground)
    ELSE IF action = "setTarget" THEN SetTargetHandler(st, pairId, foreground)
    ELSE st

\* one click is delivered to each of the n registered listeners in turn
RECURSIVE Dispatch(_, _, _, _, _)
Dispatch(st0, action, pairId, foreground, n) ==
    The({ IF n = 0 THEN st
          ELSE Dispatch(Listener(st, action, pairId, foreground), action, pairId,
                        foreground, n - 1)
          : st \in {st0} })

\* the state a click on a pair control starts from; invoked records what the
\* click invokes
UiState == [colorPairs |-> colorPairs, resultsOutput |-> resultsOutput, invoked |-> <<>>]

\* the ids of the pairs rendered in the list
RenderedIds == {colorPairs[i].id : i \in 1..Len(colorPairs)}

\* click on "+ Add Pair"
AddPairClick ==
    /\ nextPairId <= MaxId
    /\ \E store \in {addColorPair([colorPairs |-> colorPairs, nextPairId |-> nextPairId])} :
           /\ colorPairs' = store.colorPairs
           /\ nextPairId' = store.nextPairId
           /\ assigned' = Append(assigned, store.colorPairs[Len(store.colorPairs)].id)
           /\ resultsOutput' = Text("added", <<Len(store.colorPairs)>>)
    /\ UNCHANGED <<invoked, listeners, document, handlers, clicks, solverCalls>>
    /\ UNCHANGED solverVars

\* click on the remove button of the pair id
RemoveClick(id) ==
    /\ id \in RenderedIds
    /\ \E st \in {Dispatch(UiState, "remove", id, null, listeners)} :
           /\ colorPairs' = st.colorPairs
           /\ resultsOutput' = st.resultsOutput
           /\ invoked' = st.invoked
    /\ UNCHANGED <<nextPairId, assigned, listeners, document, handlers, clicks,
                   solverCalls>>
    /\ UNCHANGED solverVars

\* click on the source swatch of the pair id, the foreground colour being fg
SetSourceClick(id, fg) ==
    /\ id \in RenderedIds
    /\ \E st \in {Dispatch(UiState, "setSource", id, fg, listeners)} :
           /\ colorPairs' = st.colorPairs
           /\ resultsOutput' = st.resultsOutput
           /\ invoked' = st.invoked
    /\ UNCHANGED <<nextPairId, assigned, listeners, document, handlers, clicks,
                   solverCalls>>
    /\ UNCHANGED solverVars

\* click on the target swatch of the pair id, the foreground colour being fg
SetTargetClick(id, fg) ==
    /\ id \in RenderedIds
    /\ \E st \in {Dispatch(UiState, "setTarget", id, fg, listeners)} :
           /\ colorPairs' = st.colorPairs
           /\ resultsOutput' = st.resultsOutput
           /\ invoked' = st.invoked
    /\ UNCHANGED <<nextPairId, assigned, listeners, document, handlers, clicks,
                   solverCalls>>
    /\ UNCHANGED solverVars

-----------------------------------------------------------------------------
(* Calculate: src/main.js 26-60, and the apply step 185-292                *)

LAYER_NAME == "Smart Channel Swapper"

NoDocument == [open |-> FALSE, layers |-> <<>>, selected |-> 0, nextLayerId |-> 1]

EmptyDocument == [open |-> TRUE, layers |-> <<>>, selected |-> 0, nextLayerId |-> 1]

\* a document that already holds a helper layer from an earlier session
UsedDocument ==
    [open |-> TRUE,
     layers |-> << [id |-> 1, name |-> LAYER_NAME, mask |-> FALSE,
                    settings |-> <<<<100, 0, 0>>, <<0, 100, 0>>, <<0, 0, 100>>>>] >>,
     selected |-> 1, nextLayerId |-> 2]

InitialDocuments == {NoDocument, EmptyDocument, UsedDocument}

\* c.r of a null colour, or A[0].length of an empty list, throws a TypeError
SolverThrows(srcs, tgts) ==
    \/ Len(srcs) = 0
    \/ \E k \in 1..Len(srcs) : srcs[k] = null
    \/ \E k \in 1..Len(tgts) : tgts[k] = null

\* the settings applyChannelSwapperSettings passes on: Math.round of each entry
SettingsOf(mat) == [i \in 1..3 |-> [j \in 1..3 |-> MathRound(mat[i][j])] \o <<>>] \o <<>>

\* for (const layer of doc.layers) if (layer.name === LAYER_NAME): its index, or 0
HelperLayer(layers) ==
    IF \E i \in 1..Len(layers) : layers[i].name = LAYER_NAME
    THEN CHOOSE i \in 1..Len(layers) :
             layers[i].name = LAYER_NAME /\ \A j \in 1..(i - 1) : layers[j].name # LAYER_NAME
    ELSE 0

Pending == {"modal", "delete", "make", "mask"}

Handler(pc, mat, target) == [pc |-> pc, matrix |-> mat, target |-> target]

\* the click handler of calculateBtn, the clipping toggle being preventClipping
CalculateHandler(preventClipping) ==
    /\ clicks' = clicks + 1
    /\ \E validPairs \in {validPairsOf(colorPairs)} :
           IF Len(validPairs) = 0
           THEN /\ resultsOutput' = Text("noPairs", <<>>)
                /\ UNCHANGED <<handlers, solverCalls>>
           ELSE \E srcs \in {[k \in 1..Len(validPairs) |-> validPairs[k].source] \o <<>>},
                   tgts \in {[k \in 1..Len(validPairs) |-> validPairs[k].target] \o <<>>} :
                    /\ solverCalls' = Append(solverCalls,
                                             [sources |-> Len(srcs), targets |-> Len(tgts)])
                    /\ IF SolverThrows(srcs, tgts)
                       THEN /\ resultsOutput' = Text("error", <<"TypeError">>)
                            /\ UNCHANGED handlers
                       ELSE \E mat \in {computeChannelSwapperMatrix(
                                            srcs, tgts, preventClipping, DefaultMaxSum)} :
                                /\ resultsOutput' = formatMatrixForDisplay(mat)
                                /\ handlers' = Append(handlers, Handler("modal", mat, 0))
    /\ UNCHANGED <<colorPairs, nextPairId, assigned, invoked, listeners, document>>
    /\ UNCHANGED solverVars

\* click on Calculate
CalculateClick(preventClipping) ==
    /\ clicks < MaxClicks
    /\ CalculateHandler(preventClipping)

\* the catch block: showResult('Error: ' + err.message); the handler has returned
\* and its local matrix is gone
Caught(h, message) ==
    /\ resultsOutput' = Text("error", <<message>>)
    /\ handlers' = [handlers EXCEPT ![h] = Handler("failed", <<>>, 0)]

\* executeAsModal runs applyChannelSwapperSettings, which throws without a document
\* and otherwise enters createChannelSwapperWithSettings up to its first await
ApplyStart(h) ==
    /\ h \in 1..Len(handlers)
    /\ handlers[h].pc = "modal"
    /\ IF ~document.open
       THEN Caught(h, "No document open")
       ELSE /\ \E i \in {HelperLayer(document.layers)} :
                   handlers' = [handlers EXCEPT ![h] =
                       IF i = 0 THEN Handler("make", @.matrix, 0)
                       ELSE Handler("delete", @.matrix, document.layers[i].id)]
            /\ UNCHANGED resultsOutput
    /\ UNCHANGED <<colorPairs, nextPairId, assigned, invoked, listeners, document, clicks,
                   solverCalls>>
    /\ UNCHANGED solverVars

\* batchPlay delete of the helper layer found resolves; batchPlay make is called
DeleteDone(h) ==
    /\ h \in 1..Len(handlers)
    /\ handlers[h].pc = "delete"
    /\ document' = [document EXCEPT
           !.layers   = SelectSeq(@, LAMBDA l : l.id # handlers[h].target),
           !.selected = IF @ = handlers[h].target THEN 0 ELSE @]
    /\ handlers' = [handlers EXCEPT ![h].pc = "make"]
    /\ UNCHANGED <<colorPairs, nextPairId, assigned, invoked, listeners, resultsOutput, clicks,
                   solverCalls>>
    /\ UNCHANGED solverVars

\* batchPlay make resolves: the new adjustment layer is on top, selected, with a
\* mask; the handler finds a helper layer and calls batchPlay on the mask
MakeDone(h) ==
    /\ h \in 1..Len(handlers)
    /\ handlers[h].pc = "make"
    /\ document' = [document EXCEPT
           !.layers      = << [id |-> document.nextLayerId, name |-> LAYER_NAME,
                               mask |-> TRUE,
                               settings |-> SettingsOf(handlers[h].matrix)] >> \o @,
           !.selected    = document.nextLayerId,
           !.nextLayerId = @ + 1]
    /\ handlers' = [handlers EXCEPT ![h].pc = "mask"]
    /\ UNCHANGED <<colorPairs, nextPairId, assigned, invoked, listeners, resultsOutput, clicks,
                   solverCalls>>
    /\ UNCHANGED solverVars

\* batchPlay select/delete of the mask channel resolves; the handler returns
MaskDone(h) ==
    /\ h \in 1..Len(handlers)
    /\ handlers[h].pc = "mask"
    /\ document' = [document EXCEPT !.layers =
           [i \in 1..Len(@) |->
               IF @[i].id = document.selected THEN [@[i] EXCEPT !.mask = FALSE]
               ELSE @[i]] \o <<>>]
    /\ handlers' = [handlers EXCEPT ![h] = Handler("done", <<>>, 0)]
    /\ UNCHANGED <<colorPairs, nextPairId, assigned, invoked, listeners, resultsOutput, clicks,
                   solverCalls>>
    /\ UNCHANGED solverVars

\* the pending executeAsModal or batchPlay promise rejects
ApplyFails(h) ==
    /\ h \in 1..Len(handlers)
    /\ handlers[h].pc \in Pending
    /\ Caught(h, "rejected")
    /\ UNCHANGED <<colorPairs, nextPairId, assigned, invoked, listeners, document, clicks,
                   solverCalls>>
    /\ UNCHANGED solverVars

-----------------------------------------------------------------------------
(* The plugin                                                              *)

NoMatrix == <<>>

SolverIdle ==
    /\ phase = "idle"
    /\ sourceColors = <<>>
    /\ targetColors = <<>>
    /\ clipping = <<TRUE, DefaultMaxSum>>
    /\ matrix = NoMatrix
    /\ previous = NoMatrix
    /\ runs = <<>>

\* the state once main.js has run: both "Initialize on page load" blocks (lines
\* 175 and 465) have called initializeEventListeners
Init ==
    /\ colorPairs = <<>>
    /\ nextPairId = 1
    /\ resultsOutput = Text("initial", <<>>)
    /\ listeners = initializeEventListeners(initializeEventListeners(0))
    /\ document \in InitialDocuments
    /\ handlers = <<>>
    /\ clicks = 0
    /\ solverCalls = <<>>
    /\ assigned = <<>>
    /\ invoked = <<>>
    /\ SolverIdle

Next ==
    \/ AddPairClick
    \/ \E id \in 1..MaxId : RemoveClick(id)
    \/ \E id \in 1..MaxId, fg \in Foregrounds : SetSourceClick(id, fg)
    \/ \E id \in 1..MaxId, fg \in Foregrounds : SetTargetClick(id, fg)
    \/ \E preventClipping \in BOOLEAN : CalculateClick(preventClipping)
    \/ \E h \in 1..MaxClicks : ApplyStart(h)
    \/ \E h \in 1..MaxClicks : DeleteDone(h)
    \/ \E h \in 1..MaxClicks : MakeDone(h)
    \/ \E h \in 1..MaxClicks : MaskDone(h)
    \/ \E h \in 1..MaxClicks : ApplyFails(h)

Spec == Init /\ [][Next]_vars

-----------------------------------------------------------------------------
(* The apply step on its own: Calculate clicked up to MaxApplies times on  *)
(* one complete pair, whose colours may be set again between the clicks,   *)
(* the apply steps of the handlers interleaving at their awaits            *)

\* a document in which the user has duplicated the helper layer
DuplicatedDocument ==
    [open |-> TRUE,
     layers |-> << [id |-> 2, name |-> LAYER_NAME, mask |-> FALSE,
                    settings |-> <<<<100, 0, 0>>, <<0, 100, 0>>, <<0, 0, 100>>>>],
                   [id |-> 1, name |-> LAYER_NAME, mask |-> FALSE,
                    settings |-> <<<<100, 0, 0>>, <<0, 100, 0>>, <<0, 0, 100>>>>] >>,
     selected |-> 2, nextLayerId |-> 3]

ApplyDocuments == InitialDocuments \cup {DuplicatedDocument}

\* the state after "+ Add Pair", a click on the source swatch with the foreground
\* colour Dim and a click on the target swatch with the foreground colour White
ApplyInit ==
    /\ colorPairs = << [id |-> 1, source |-> Dim, target |-> White] >>
    /\ nextPairId = 2
    /\ resultsOutput = Text("targetSet", White)
    /\ listeners = initializeEventListeners(initializeEventListeners(0))
    /\ document \in ApplyDocuments
    /\ handlers = <<>>
    /\ clicks = 0
    /\ solverCalls = <<>>
    /\ assigned = <<1>>
    /\ invoked = <<<<"setTargetForPair", 1>>, <<"setTargetForPair", 1>>>>
    /\ SolverIdle

\* click on Calculate
CalculateAgain(preventClipping) ==
    /\ clicks < MaxApplies
    /\ CalculateHandler(preventClipping)

ApplyNext ==
    \/ \E fg \in Foregrounds : SetSourceClick(1, fg)
    \/ \E fg \in Foregrounds : SetTargetClick(1, fg)
    \/ \E preventClipping \in BOOLEAN : CalculateAgain(preventClipping)
    \/ \E h \in 1..MaxApplies : ApplyStart(h)
    \/ \E h \in 1..MaxApplies : DeleteDone(h)
    \/ \E h \in 1..MaxApplies : MakeDone(h)
    \/ \E h \in 1..MaxApplies : MaskDone(h)
    \/ \E h \in 1..MaxApplies : ApplyFails(h)

ApplySpec == ApplyInit /\ [][ApplyNext]_vars

-----------------------------------------------------------------------------
(* The solver on its own: computeChannelSwapperMatrix on lists of up to    *)
(* MaxPairs pairs of TestPairs, on the same lists permuted, and            *)
(* solveLinearSystem on small systems, singular ones included              *)

\* the entries of the systems solveLinearSystem is called on directly
SystemEntries == {0, 1}

Permuted(list, p) == [k \in 1..Len(list) |-> list[p[k]]] \o <<>>

SolverInit ==
    /\ colorPairs = <<>>
    /\ nextPairId = 1
    /\ resultsOutput = Text("initial", <<>>)
    /\ listeners = initializeEventListeners(initializeEventListeners(0))
    /\ document = NoDocument
    /\ handlers = <<>>
    /\ clicks = 0
    /\ solverCalls = <<>>
    /\ assigned = <<>>
    /\ invoked = <<>>
    /\ phase = "input"
    /\ sourceColors = <<>>
    /\ targetColors = <<>>
    /\ clipping = <<TRUE, DefaultMaxSum>>
    /\ matrix = NoMatrix
    /\ previous = NoMatrix
    /\ runs = <<>>

\* one more pair in the lists the solver will be called on
AddInput(pair) ==
    /\ phase = "input"
    /\ Len(sourceColors) < MaxPairs
    /\ sourceColors' = Append(sourceColors, pair[1])
    /\ targetColors' = Append(targetColors, pair[2])
    /\ UNCHANGED <<phase, clipping, matrix, previous, runs>>
    /\ UNCHANGED uiVars

\* computeChannelSwapperMatrix(sourceColors, targetColors, preventClipping, maxSum)
Compute(setting) ==
    /\ phase = "input"
    /\ Len(sourceColors) >= 1
    /\ \E run \in {MatrixRun(sourceColors, targetColors, setting[1], setting[2])} :
           /\ matrix' = run.matrix
           /\ runs' = run.runs
    /\ clipping' = setting
    /\ phase' = "computed"
    /\ UNCHANGED <<sourceColors, targetColors, previous>>
    /\ UNCHANGED uiVars

\* the same call on both lists permuted by p; previous keeps the first matrix
Permute(p) ==
    /\ phase = "computed"
    /\ p \in Permutations(1..Len(sourceColors))
    /\ \E i \in 1..Len(sourceColors) : p[i] # i
    /\ sourceColors' = Permuted(sourceColors, p)
    /\ targetColors' = Permuted(targetColors, p)
    /\ \E run \in {MatrixRun(Permuted(sourceColors, p), Permuted(targetColors, p),
                             clipping[1], clipping[2])} :
           /\ matrix' = run.matrix
           /\ runs' = run.runs
    /\ previous' = matrix
    /\ phase' = "permuted"
    /\ UNCHANGED clipping
    /\ UNCHANGED uiVars

\* solveLinearSystem(A, b) on a 3 x 3 system
SolveSystem(A, b) ==
    /\ phase = "input"
    /\ sourceColors = <<>>
    /\ runs' = << LinearSystemRun(
                      [i \in 1..3 |-> [j \in 1..3 |-> FromInt(A[i][j])] \o <<>>] \o <<>>,
                      [i \in 1..3 |-> FromInt(b[i])] \o <<>>) >>
    /\ phase' = "solved"
    /\ UNCHANGED <<sourceColors, targetColors, clipping, matrix, previous>>
    /\ UNCHANGED uiVars

SolverNext ==
    \/ \E pair \in TestPairs : AddInput(pair)
    \/ \E setting \in ClippingSettings : Compute(setting)
    \/ \E n \in 2..MaxPairs : \E p \in Permutations(1..n) : Permute(p)
    \/ \E A \in [1..3 -> [1..3 -> SystemEntries]], b \in [1..3 -> SystemEntries] :
           SolveSystem(A, b)

SolverSpec == SolverInit /\ [][SolverNext]_vars

-----------------------------------------------------------------------------
(* Properties of the solver (SolverSpec)                                   *)

\* the tolerance of the comparisons "within tolerance": half a percent, the
\* matrix being displayed and applied in whole percents
Tolerance == Div(FromInt(1), FromInt(2))

Close(a, b) == Le(Abs(Sub(a, b)), Tolerance)

Returned == phase \in {"computed", "permuted"}

NearIdentity(mat) ==
    \A i, j \in 1..3 : Close(mat[i][j], IF i = j THEN FromInt(100) ELSE Zero)

\* row ch of the matrix applied to the colour c gives channel ch of c again
\* (in percent of full scale)
KeepsColor(mat, c) ==
    \A ch \in 1..3 :
        Close(SumTo([j \in 1..3 |-> Mul(mat[ch][j], Normalize(c)[j])] \o <<>>, 3),
              Mul(FromInt(100), Normalize(c)[ch]))

Colors(list) == {list[k] : k \in 1..Len(list)}

C2_RowSumBounded ==
    (Returned /\ clipping[1]) =>
        \A i \in 1..3 :
            Le(Abs(SumTo(matrix[i], 3)), Add(FromInt(clipping[2]), Tolerance))

SmallDiagonal(run, i) == Lt(Abs(run.aug[i][i]), PivotTolerance)

\* C3: computeChannelSwapperMatrix returns a 3 x 3 matrix of finite Numbers on
\* every list, degenerate ones included, and solveLinearSystem never divides by
\* an entry of magnitude below 1e-12: the unknown of such a diagonal entry gets
\* the default, 1 for the first unknown and 0 for the others
C3_Total ==
    /\ Returned =>
           /\ Len(matrix) = 3
           /\ \A i \in 1..3 : Len(matrix[i]) = 3 /\ \A j \in 1..3 : matrix[i][j].k = "fin"
    /\ \A r \in 1..Len(runs) :
           /\ \A d \in 1..Len(runs[r].divisors) :
                  Ge(Abs(runs[r].divisors[d]), PivotTolerance)
           /\ \A i \in 1..3 :
                  SmallDiagonal(runs[r], i) =>
                      runs[r].x[i] = IF i = 1 THEN FromInt(1) ELSE Zero

\* a singular system was solved: a division was made, the second column was
\* skipped and its unknown is 0
C3_Witness ==
    /\ phase = "solved"
    /\ Len(runs[1].divisors) > 0
    /\ ~SmallDiagonal(runs[1], 1)
    /\ SmallDiagonal(runs[1], 2)
    /\ runs[1].x[2] = Zero

\* C4 as stated: whenever every source equals its target and preventClipping is
\* false, the returned matrix is the identity within tolerance
C4_Identity ==
    (Returned /\ ~clipping[1] /\ sourceColors = targetColors) => NearIdentity(matrix)

\* C4 amended: whenever every source equals its target and preventClipping is
\* false, the returned matrix maps every source colour to itself within
\* tolerance, and it is the identity within tolerance when pure red, pure green
\* and pure blue are among the sources
C4_SourcesKept ==
    (Returned /\ ~clipping[1] /\ sourceColors = targetColors) =>
        /\ \A k \in 1..Len(sourceColors) : KeepsColor(matrix, sourceColors[k])
        /\ {Red, Green, Blue} \subseteq Colors(sourceColors) => NearIdentity(matrix)

\* red, green and blue mapped to themselves gave the identity
C4_Witness ==
    /\ phase = "computed"
    /\ ~clipping[1]
    /\ sourceColors = <<Red, Green, Blue>>
    /\ targetColors = sourceColors
    /\ NearIdentity(matrix)

\* C10: the matrix returned for both lists permuted alike is the matrix returned
\* for the lists as they were, within tolerance, for either clipping setting
C10_PermutationInvariant ==
    phase = "permuted" =>
        \A i, j \in 1..3 : Close(matrix[i][j], previous[i][j])

\* three pairs permuted gave a matrix that differs from the first in rounding
C10_Witness ==
    /\ phase = "permuted"
    /\ Len(sourceColors) = 3
    /\ matrix # previous

-----------------------------------------------------------------------------
(* Properties of the plugin (Spec)                                         *)

Ids(pairs) == [i \in 1..Len(pairs) |-> pairs[i].id] \o <<>>

RemoveAt(seq, i) == SubSeq(seq, 1, i - 1) \o SubSeq(seq, i + 1, Len(seq))

HasCompletePair ==
    \E i \in 1..Len(colorPairs) : colorPairs[i].source # null /\ colorPairs[i].target # null

\* C5: a click on Calculate invokes the solver if and only if some pair has both
\* colours; with none it shows the message and starts neither solver nor apply
\* step; the two lists of every solver call have the same length, at least 1
C5_SolverIffComplete ==
    [][clicks' = clicks + 1 =>
          /\ (Len(solverCalls') = Len(solverCalls) + 1) <=> HasCompletePair
          /\ ~HasCompletePair =>
                 /\ resultsOutput' = Text("noPairs", <<>>)
                 /\ solverCalls' = solverCalls
                 /\ handlers' = handlers
          /\ \A c \in 1..Len(solverCalls') :
                 /\ solverCalls'[c].sources = solverCalls'[c].targets
                 /\ solverCalls'[c].sources >= 1]_vars

\* Calculate was clicked on one complete and one incomplete pair, and the solver
\* was called on one pair
C5_Witness ==
    /\ clicks = 1
    /\ Len(colorPairs) = 2
    /\ HasCompletePair
    /\ \E i \in 1..2 : colorPairs[i].target = null
    /\ solverCalls = <<[sources |-> 1, targets |-> 1]>>

\* C6: when the apply step of a handler fails, the handler ends with the matrix
\* still displayable: its text is in the results output, or the handler's state
\* still holds it
C6_MatrixKept ==
    [][\A h \in 1..Len(handlers) :
          (handlers[h].pc \in Pending /\ handlers'[h].pc = "failed") =>
              \/ resultsOutput' = formatMatrixForDisplay(handlers[h].matrix)
              \/ handlers'[h].matrix = handlers[h].matrix]_vars

IdsIncreasing ==
    /\ \A i, j \in 1..Len(colorPairs) : i < j => colorPairs[i].id < colorPairs[j].id
    /\ \A a \in 1..Len(assigned) : assigned[a] < nextPairId
    /\ \A a, b \in 1..Len(assigned) : a < b => assigned[a] < assigned[b]
    /\ \A i \in 1..Len(colorPairs) :
           \E a \in 1..Len(assigned) : assigned[a] = colorPairs[i].id

\* C7: the ids in the store are strictly increasing in collection order (so
\* pairwise distinct), every id assigned is below nextPairId, no id is assigned
\* twice, and a removal leaves the ids of the pairs that remain as they were
C7_IdsNeverReused ==
    /\ []IdsIncreasing
    /\ [][Len(colorPairs') < Len(colorPairs) =>
             \E i \in 1..Len(colorPairs) : Ids(colorPairs') = RemoveAt(Ids(colorPairs), i)]_vars

\* pair 1 was removed and the pair added after it has id 2
C7_Witness ==
    /\ assigned = <<1, 2>>
    /\ Ids(colorPairs) = <<2>>

\* what removeColorPair(id) is to leave of pairs
RemoveFrame(pairs, id) ==
    IF \E i \in 1..Len(pairs) : pairs[i].id = id
    THEN \E i \in 1..Len(pairs) :
             pairs[i].id = id /\ removeColorPair(pairs, id) = RemoveAt(pairs, i)
    ELSE removeColorPair(pairs, id) = pairs

\* C8: removeColorPair(id) deletes the pair with that id and nothing else, is a
\* no-op when no pair has the id, and a removal leaves nextPairId unchanged
C8_RemoveFrame ==
    /\ [](\A id \in 0..(MaxId + 1) : RemoveFrame(colorPairs, id))
    /\ [][Len(colorPairs') < Len(colorPairs) =>
             /\ nextPairId' = nextPairId
             /\ \E i \in 1..Len(colorPairs) : colorPairs' = RemoveAt(colorPairs, i)]_vars

\* the first of two pairs was removed; the second is still there with its colour
C8_Witness ==
    /\ resultsOutput = Text("removed", <<1>>)
    /\ Ids(colorPairs) = <<2>>
    /\ colorPairs[1].source # null

\* what setSourceForPair(id) is to leave of pairs, the foreground colour being fg
SourceFrame(pairs, id, fg) ==
    \E after \in {setSourceForPair(pairs, id, fg)} :
        /\ Len(after) = Len(pairs)
        /\ \A j \in 1..Len(pairs) :
               /\ after[j].id = pairs[j].id
               /\ after[j].target = pairs[j].target
               /\ after[j].source = IF pairs[j].id = id THEN fg ELSE pairs[j].source
        /\ setSourceForPair(after, id, fg) = after

\* what setTargetForPair(id) is to leave of pairs, the foreground colour being fg
TargetFrame(pairs, id, fg) ==
    \E after \in {setTargetForPair(pairs, id, fg)} :
        /\ Len(after) = Len(pairs)
        /\ \A j \in 1..Len(pairs) :
               /\ after[j].id = pairs[j].id
               /\ after[j].source = pairs[j].source
               /\ after[j].target = IF pairs[j].id = id THEN fg ELSE pairs[j].target
        /\ setTargetForPair(after, id, fg) = after

\* C9: setSourceForPair / setTargetForPair overwrite the named field of the pair
\* with that id and nothing else, change nothing when no pair has the id, give
\* the same store when repeated, and leave nextPairId unchanged
C9_SetFrame ==
    /\ [](\A id \in 0..(MaxId + 1), fg \in Foregrounds :
             SourceFrame(colorPairs, id, fg) /\ TargetFrame(colorPairs, id, fg))
    /\ [][(colorPairs' # colorPairs /\ Len(colorPairs') = Len(colorPairs)) =>
             nextPairId' = nextPairId]_vars

\* the source of the second of two pairs was set; the first pair and the target
\* of the second are still empty
C9_Witness ==
    /\ resultsOutput.kind = "sourceSet"
    /\ Len(colorPairs) = 2
    /\ colorPairs[1].source = null
    /\ colorPairs[2].source # null
    /\ colorPairs[2].target = null

-----------------------------------------------------------------------------
(* Properties of the apply step (ApplySpec)                                *)

HelperLayers(doc) == SelectSeq(doc.layers, LAMBDA l : l.name = LAYER_NAME)

\* C11: when an apply completes, the document holds exactly one layer named
\* 'Smart Channel Swapper', and that layer carries the settings of the apply
C11_OneHelperLayer ==
    [][\A h \in 1..Len(handlers) :
          (handlers[h].pc = "mask" /\ handlers'[h].pc = "done") =>
              /\ Len(HelperLayers(document')) = 1
              /\ HelperLayers(document')[1].settings = SettingsOf(handlers[h].matrix)]_vars

-----------------------------------------------------------------------------
(* Properties of the pair controls (Spec)                                  *)

\* C12: the click listener of the list is registered exactly once, and a click
\* on a pair control invokes the store operation of that control exactly once
C12_InvokedOnce ==
    [][invoked' # invoked => (listeners = 1 /\ Len(invoked') = 1)]_vars
====
